---------------------------- MODULE Spec2Model ----------------------------
(***************************************************************************)
(* Model of the adptbx toolbox (anisotropic displacement parameters):      *)
(* the isotropic/Cartesian conversions, Eigenvalues (Cardan's formula) and *)
(* Eigenvectors (power iteration on M and on its inverse).                 *)
(*                                                                         *)
(* FloatType is modelled as a signed fixed-point number: the integer x     *)
(* stands for the value x / Scale.  Every arithmetic operation rounds its  *)
(* exact result to the nearest representable value, as the floating-point  *)
(* operations of the code do, so that rounding effects (a discriminant     *)
(* that comes out slightly positive, a quotient 0/0) are part of the model.*)
(* A six-component tensor is a sequence of length 6 in the order           *)
(* (11, 22, 33, 12, 13, 23); a 3x3 matrix is a row-major sequence of       *)
(* length 9.  Sequences are 1-based: the code's adp[k] is adp[k+1] here.   *)
(***************************************************************************)
EXTENDS Integers, Sequences, FiniteSets

(***************************************************************************)
(* FloatType arithmetic                                                    *)
(***************************************************************************)

\* Scale = Base * Sub: values have seven decimal places.
Base == 10000
Sub == 1000
Scale == Base * Sub

\* The value a floating-point operation yields for 0/0, x/0 and for acos
\* outside [-1, 1]; it lies outside the range of the representable numbers.
NaN == -2147483647

IsNaN(x) == x = NaN

Abs(x) == IF x < 0 THEN -x ELSE x

\* n / d for an integer divisor d > 0, rounded to nearest.
RDiv(n, d) ==
  LET a == Abs(n)
      m == (a \div d) + (IF 2 * (a % d) >= d THEN 1 ELSE 0)
  IN  IF n < 0 THEN -m ELSE m

\* floor(a * b / Scale) for a, b >= 0, without an intermediate above 2^31.
MulFloor(a, b) ==
  LET ah == a \div Base
      al == a % Base
      bh == b \div Base
      bl == b % Base
      x1 == ah * bl
      x2 == al * bh
      num == (x1 % Sub) * Base + (x2 % Sub) * Base + al * bl
  IN  ah * bh * (Base \div Sub) + (x1 \div Sub) + (x2 \div Sub) + (num \div Scale)

\* (a * b) mod Scale for a, b >= 0.
MulRem(a, b) ==
  LET ah == a \div Base
      al == a % Base
      bh == b \div Base
      bl == b % Base
      x1 == ah * bl
      x2 == al * bh
  IN  ((x1 % Sub) * Base + (x2 % Sub) * Base + al * bl) % Scale

\* The product a * b, rounded to nearest.
FMul(a, b) ==
  LET m == MulFloor(Abs(a), Abs(b))
           + (IF 2 * MulRem(Abs(a), Abs(b)) >= Scale THEN 1 ELSE 0)
  IN  IF (a < 0) # (b < 0) THEN -m ELSE m

\* Long division: k more decimal digits of q + r / b.
RECURSIVE DivDigits(_, _, _, _)
DivDigits(q, r, b, k) ==
  IF k = 0
  THEN q + (IF 2 * r >= b THEN 1 ELSE 0)
  ELSE DivDigits(q * 10 + ((r * 10) \div b), (r * 10) % b, b, k - 1)

\* The quotient a / b for b # 0, rounded to nearest.
FDiv(a, b) ==
  LET m == DivDigits(Abs(a) \div Abs(b), Abs(a) % Abs(b), Abs(b), 7)
  IN  IF (a < 0) # (b < 0) THEN -m ELSE m

\* z * z <= x, exactly.
SqLe(z, x) ==
  LET zz == MulFloor(z, z)
  IN  IF zz = x THEN MulRem(z, z) = 0 ELSE zz < x

RECURSIVE SqrtBisect(_, _, _)
SqrtBisect(lo, hi, x) ==
  IF lo >= hi
  THEN lo
  ELSE LET mid == lo + ((hi - lo + 1) \div 2)
       IN  IF SqLe(mid, x) THEN SqrtBisect(mid, hi, x)
                           ELSE SqrtBisect(lo, mid - 1, x)

Min(a, b) == IF a < b THEN a ELSE b
Max(a, b) == IF a > b THEN a ELSE b

\* std::sqrt: NaN for a negative argument.
FSqrt(x) ==
  IF IsNaN(x) \/ x < 0
  THEN NaN
  ELSE SqrtBisect(0, Min(Max(x, Scale), 14 * Scale), x)

RECURSIVE CbrtBisect(_, _, _)
CbrtBisect(lo, hi, x) ==
  IF lo >= hi
  THEN lo
  ELSE LET mid == lo + ((hi - lo + 1) \div 2)
       IN  IF FMul(FMul(mid, mid), mid) <= x THEN CbrtBisect(mid, hi, x)
                                             ELSE CbrtBisect(lo, mid - 1, x)

\* std::pow(x, 1/3.) for x >= 0.
FCbrt(x) ==
  IF IsNaN(x) \/ x < 0
  THEN NaN
  ELSE CbrtBisect(0, Min(Max(x, Scale), 5 * Scale), x)

\* constants::pi
Pi == 31415927

\* The cosine series in Horner form, terms k .. 7, for x2 = x * x:
\* 1 - x2/((2k-1)(2k)) * (1 - x2/((2k+1)(2k+2)) * ( ... )).
RECURSIVE CosHorner(_, _)
CosHorner(x2, k) ==
  IF k > 7
  THEN Scale
  ELSE Scale - RDiv(FMul(x2, CosHorner(x2, k + 1)), (2 * k - 1) * (2 * k))

\* std::cos
FCos(x) ==
  IF IsNaN(x)
  THEN NaN
  ELSE LET y == Abs(x) % (2 * Pi)
           z == IF y > Pi THEN 2 * Pi - y ELSE y
       IN  IF 2 * z > Pi THEN -CosHorner(FMul(Pi - z, Pi - z), 1)
                         ELSE CosHorner(FMul(z, z), 1)

RECURSIVE AcosBisect(_, _, _)
AcosBisect(lo, hi, y) ==
  IF lo >= hi
  THEN lo
  ELSE LET mid == lo + ((hi - lo + 1) \div 2)
       IN  IF FCos(mid) >= y THEN AcosBisect(mid, hi, y)
                             ELSE AcosBisect(lo, mid - 1, y)

\* std::acos: NaN outside [-1, 1].
FAcos(y) ==
  IF IsNaN(y) \/ y > Scale \/ y < -Scale THEN NaN
  ELSE IF y = Scale THEN 0
  ELSE IF y = -Scale THEN Pi
  ELSE AcosBisect(0, Pi, y)


(***************************************************************************)
(* Bounds of the model                                                     *)
(***************************************************************************)

\* Tensor components are multiples of one half.
Unit == Scale \div 2

\* Diagonal tensors: the diagonal elements range over
\* -MaxNeg*Unit .. MaxDiag*Unit.
MaxDiag == 3
MaxNeg == 2

Diagonal ==
  { <<a * Unit, b * Unit, c * Unit, 0, 0, 0>> :
      a \in -MaxNeg..MaxDiag, b \in -MaxNeg..MaxDiag, c \in -MaxNeg..MaxDiag }

\* Tensors with a positive diagonal (Unit .. MaxDiag*Unit) and off-diagonal
\* elements in -MaxOff*Unit .. MaxOff*Unit (the last two: 0 .. MaxOff*Unit).
MaxOff == 1

Coupled ==
  { <<a * Unit, b * Unit, c * Unit, e * Unit, f * Unit, g * Unit>> :
      a \in 1..MaxDiag, b \in 1..MaxDiag, c \in 1..MaxDiag,
      e \in -MaxOff..MaxOff, f \in 0..MaxOff, g \in 0..MaxOff }

\* Nearly isotropic diagonal tensors: the diagonal elements are 1 plus
\* 0 .. MaxFine steps of 1.e-6.
MaxFine == 2
FineStep == Scale \div 1000000

NearIsotropic ==
  { <<Scale + a * FineStep, Scale + b * FineStep, Scale + c * FineStep,
      0, 0, 0>> :
      a \in 0..MaxFine, b \in 0..MaxFine, c \in 0..MaxFine }

Tensors == Diagonal \cup Coupled \cup NearIsotropic

\* Indefinite tensors: a block (a, e; e, -a), whose two eigenvalues are
\* opposite, beside a third diagonal element c.
MaxBlock == 2
MaxBlockOff == 2
MaxThird == 1

Indefinite ==
  { <<a * Unit, -a * Unit, c * Unit, e * Unit, 0, 0>> :
      a \in 1..MaxBlock, c \in 0..MaxThird, e \in 0..MaxBlockOff }

\* Isotropic inputs are Unit, 2*Unit, ..., MaxIso*Unit.
MaxIso == 3

Uisos == { u * Unit : u \in 1..MaxIso }

(***************************************************************************)
(* Conversions                                                             *)
(***************************************************************************)

\* Ucart -> Uiso: the mean of the diagonal elements.
Ucart_as_Uiso_First(Ucart) == Ucart[1]

Ucart_as_Uiso(Ucart) == RDiv(Ucart[1] + Ucart[2] + Ucart[3], 3)

\* Uiso -> Ucart: Uiso on the diagonal, zero elsewhere.
Uiso_as_Ucart(Uiso) == <<Uiso, Uiso, Uiso, 0, 0, 0>>

(***************************************************************************)
(* Eigenvalues: the coefficients of the cubic and Cardan's formula         *)
(***************************************************************************)

\* normal form: x^3 + r x^2 + s x + t == 0
Coeff_r(a) == -a[1] - a[2] - a[3]

Coeff_s(a) ==
    FMul(a[1], a[2]) + FMul(a[1], a[3]) + FMul(a[2], a[3])
  - FMul(a[4], a[4]) - FMul(a[5], a[5]) - FMul(a[6], a[6])

Coeff_t(a) ==
    FMul(FMul(a[1], a[6]), a[6]) - FMul(FMul(a[1], a[2]), a[3])
  + FMul(FMul(a[3], a[4]), a[4]) + FMul(FMul(a[2], a[5]), a[5])
  - FMul(FMul(2 * a[4], a[5]), a[6])

\* reduced form: y^3 + p y + q == 0
Coeff_p(rr, ss) == ss - RDiv(FMul(rr, rr), 3)

Coeff_q(rr, ss, tt) ==
  RDiv(FMul(FMul(2 * rr, rr), rr), 27) - RDiv(FMul(rr, ss), 3) + tt

Cube(x) == FMul(FMul(x, x), x)

\* D = p3 / 27. + q2 / 4.
Discriminant(pp, qq) == RDiv(Cube(pp), 27) + RDiv(FMul(qq, qq), 4)

\* zeta = std::sqrt(-p3 / 27)
Zeta(pp) == FSqrt(RDiv(-Cube(pp), 27))

\* phi = std::acos(-q / (2. * zeta)).  With zeta = 0 the quotient is 0/0 (NaN)
\* or x/0 (an infinity), and acos of either is NaN.
Phi(qq, zz) ==
  IF IsNaN(zz) \/ zz = 0 THEN NaN ELSE FAcos(FDiv(-qq, 2 * zz))

\* rzeta = 2. * std::pow(zeta, FloatType(1/3.))
RZeta(zz) == IF IsNaN(zz) THEN NaN ELSE 2 * FCbrt(zz)

\* result[i] = rzeta * std::cos((phi + (i * 2) * constants::pi) / 3.) - r / 3.
\* Any operation on NaN yields NaN (also 0 * NaN).
Root(k, rr, ph, rz) ==
  IF IsNaN(ph) \/ IsNaN(rz)
  THEN NaN
  ELSE FMul(rz, FCos(RDiv(ph + (k * 2) * Pi, 3))) - RDiv(rr, 3)

\* result[i] <= 0. : false for NaN, as every comparison with NaN.
LeZero(x) == ~IsNaN(x) /\ x <= 0

\* The condition of cctbx_assert(D <= 0.): with D > 0 the cubic has
\* imaginary roots.
DiscriminantAsserted_Skipped(dd) == TRUE

DiscriminantAsserted(dd) == dd <= 0

\* The inputs on which no intermediate value of Eigenvalues (2 r^3, p^3)
\* leaves the range of the fixed-point numbers.
InRangeEigenvalues(a) ==
  /\ Abs(Coeff_r(a)) <= 9 * Unit
  /\ Abs(Coeff_p(Coeff_r(a), Coeff_s(a))) <= 5 * Scale

(***************************************************************************)
(* Matrix and vector primitives                                            *)
(***************************************************************************)

\* The dense matrix with element 3 taken from component 4 instead of 3.
Xaniso_as_SymMx33_Lower(Xaniso) ==
  << Xaniso[1], Xaniso[4], Xaniso[5],
     Xaniso[5], Xaniso[2], Xaniso[6],
     Xaniso[5], Xaniso[6], Xaniso[3] >>

\* The dense symmetric 3x3 matrix of a six-component tensor.
Xaniso_as_SymMx33(Xaniso) ==
  << Xaniso[1], Xaniso[4], Xaniso[5],
     Xaniso[4], Xaniso[2], Xaniso[6],
     Xaniso[5], Xaniso[6], Xaniso[3] >>

\* MatrixLite::Determinant of a 3x3 matrix.
Determinant(m) ==
    FMul(m[1], FMul(m[5], m[9]) - FMul(m[6], m[8]))
  - FMul(m[2], FMul(m[4], m[9]) - FMul(m[6], m[7]))
  + FMul(m[3], FMul(m[4], m[8]) - FMul(m[5], m[7]))

\* MatrixLite::CoFactorMxTp: the transposed matrix of cofactors.
CoFactorMxTp(m) ==
  <<   FMul(m[5], m[9]) - FMul(m[6], m[8]),
     -(FMul(m[2], m[9]) - FMul(m[3], m[8])),
       FMul(m[2], m[6]) - FMul(m[3], m[5]),
     -(FMul(m[4], m[9]) - FMul(m[6], m[7])),
       FMul(m[1], m[9]) - FMul(m[3], m[7]),
     -(FMul(m[1], m[6]) - FMul(m[3], m[4])),
       FMul(m[4], m[8]) - FMul(m[5], m[7]),
     -(FMul(m[1], m[8]) - FMul(m[2], m[7])),
       FMul(m[1], m[5]) - FMul(m[2], m[4]) >>

\* array / scalar, element by element.
array_div(a, x) == [k \in 1..Len(a) |-> FDiv(a[k], x)]

\* -array
array_neg(a) == [k \in 1..Len(a) |-> -a[k]]

\* boost::array_abs
array_abs(a) == [k \in 1..Len(a) |-> Abs(a[k])]

\* boost::array_max_index of three elements: the first position of the
\* maximum (positions 1..3 here, 0..2 in the code).
array_max_index(a) ==
  LET k == IF a[1] < a[2] THEN 2 ELSE 1
  IN  IF a[k] < a[3] THEN 3 ELSE k

\* MatrixLite::DiagonalElements
DiagonalElements(m) == <<m[1], m[5], m[9]>>

\* MatrixLite::multiply of a 3x3 matrix and a vector.
multiply(m, v) ==
  [k \in 1..3 |->   FMul(m[3 * k - 2], v[1]) + FMul(m[3 * k - 1], v[2])
                  + FMul(m[3 * k], v[3])]

\* array * array: the scalar product.
dot(a, b) == FMul(a[1], b[1]) + FMul(a[2], b[2]) + FMul(a[3], b[3])

\* MatrixLite::approx_equal: every pair of elements differs by at most the
\* tolerance.
approx_equal(a, b, tol) == \A k \in 1..3 : Abs(a[k] - b[k]) <= tol

\* MatrixLite::cross_product
cross_product(a, b) ==
  << FMul(a[2], b[3]) - FMul(a[3], b[2]),
     FMul(a[3], b[1]) - FMul(a[1], b[3]),
     FMul(a[1], b[2]) - FMul(a[2], b[1]) >>

\* V.assign(0.); V[iLarge] = 1.
UnitVector(iLarge) == [k \in 1..3 |-> IF k = iLarge THEN Scale ELSE 0]

(***************************************************************************)
(* recursively_multiply and Eigenvectors: the values of one step           *)
(***************************************************************************)

\* The default of the tolerance parameters (1.e-6).
DefaultTolerance == 10

\* The bound of RunAwayCounter.
RunAwayLimit == 1000

\* The tolerances a caller passes to Eigenvectors.
Tolerances == {DefaultTolerance, 100 * DefaultTolerance}

\* M[1] = MatrixLite::CoFactorMxTp(M[0]) / d
Inverse(m, dd) == array_div(CoFactorMxTp(m), dd)

\* The tolerance recursively_multiply receives from Eigenvectors: the call
\* passes M[iM] and V only, so the parameter takes its default.
PassedTolerance(tol) == DefaultTolerance

\* MV = MV / abs_lambda
Normalized_Half(mv, abs_lambda) == array_div(mv, 2 * abs_lambda)

Normalized(mv, abs_lambda) == array_div(mv, abs_lambda)

\* scaled_tolerance = absMV[iMax] * tolerance
ScaledTolerance(mv, tol) ==
  LET absMV == array_abs(mv) IN FMul(absMV[array_max_index(absMV)], tol)

\* MatrixLite::approx_equal(MV, -V, scaled_tolerance): lambda < 0.
NegativeConvergence_Never(mv, v, tol) == FALSE

NegativeConvergence(mv, v, tol) == approx_equal(mv, array_neg(v), tol)

\* RunAwayCounter > 1000, evaluated after the increment.
RunAway_AtLimit(counter) == counter >= RunAwayLimit

RunAway(counter) == counter > RunAwayLimit

\* The inputs on which no intermediate value of Eigenvectors leaves the
\* range of the fixed-point numbers: the elements of the inverse are small
\* enough for MV * MV, the square of the length of M[1] V, to stay below 196.
InRangeEigenvectors(a) ==
  LET m  == Xaniso_as_SymMx33(a)
      dd == Determinant(m)
  IN  IF dd = 0
      THEN TRUE
      ELSE LET inv == Inverse(m, dd)
           IN  IF \E k \in 1..9 : Abs(inv[k]) > 14 * Scale
               THEN FALSE
               ELSE   Abs(inv[1]) + Abs(inv[2]) + Abs(inv[3])
                    + Abs(inv[4]) + Abs(inv[5]) + Abs(inv[6])
                    + Abs(inv[7]) + Abs(inv[8]) + Abs(inv[9]) <= 14 * Scale

(***************************************************************************)
(* The scaling conversions                                                 *)
(***************************************************************************)

\* One step of a long division in the radix 2, and one in the radix 5 made
\* of doublings, so that no intermediate exceeds 2 * b.
DivStep2(qr, b) ==
  << 2 * qr[1] + ((2 * qr[2]) \div b), (2 * qr[2]) % b >>

DivStep5(qr, b) ==
  LET d1 == (2 * qr[2]) \div b
      r1 == (2 * qr[2]) % b
      d2 == (2 * r1) \div b
      r2 == (2 * r1) % b
      d3 == (r2 + qr[2]) \div b
      r3 == (r2 + qr[2]) % b
  IN  << 5 * qr[1] + 2 * d1 + d2 + d3, r3 >>

\* k more steps: seven of radix 2 and seven of radix 5 make the seven
\* decimal places.
RECURSIVE DivSteps(_, _, _)
DivSteps(qr, b, k) ==
  IF k = 0
  THEN qr[1] + (IF 2 * qr[2] >= b THEN 1 ELSE 0)
  ELSE DivSteps(IF k > 7 THEN DivStep2(qr, b) ELSE DivStep5(qr, b), b, k - 1)

\* The quotient a / b rounded to nearest, for divisors up to 100; 0/0 and
\* x/0 have no value.
FDivWide(a, b) ==
  IF IsNaN(a) \/ IsNaN(b) \/ b = 0
  THEN NaN
  ELSE LET m == DivSteps(<<Abs(a) \div Abs(b), Abs(a) % Abs(b)>>, Abs(b), 14)
       IN  IF (a < 0) # (b < 0) THEN -m ELSE m

\* 2. * constants::pi * constants::pi and 8. * constants::pi * constants::pi
TwoPiSquared == FMul(FMul(2 * Scale, Pi), Pi)
EightPiSquared == FMul(FMul(8 * Scale, Pi), Pi)

\* scalar * array and array / scalar, element by element.
array_scale(x, a) == [k \in 1..Len(a) |-> FMul(x, a[k])]
array_over(a, x) == [k \in 1..Len(a) |-> FDivWide(a[k], x)]

\* Isotropic U -> B and B -> U.
U_as_B(Uiso) == FMul(Uiso, EightPiSquared)
B_as_U(Biso) == FDivWide(Biso, EightPiSquared)

\* Anisotropic U -> B and B -> U: B -> U multiplies by the reciprocal.
U_as_B_aniso(Uaniso) == array_scale(EightPiSquared, Uaniso)
B_as_U_aniso(Baniso) == array_scale(FDivWide(Scale, EightPiSquared), Baniso)

\* The products of reciprocal edge lengths that belong to the six
\* components (11, 22, 33, 12, 13, 23).
R_Len_Products(R_Len) ==
  << FMul(R_Len[1], R_Len[1]), FMul(R_Len[2], R_Len[2]),
     FMul(R_Len[3], R_Len[3]), FMul(R_Len[1], R_Len[2]),
     FMul(R_Len[1], R_Len[3]), FMul(R_Len[2], R_Len[3]) >>

\* Uuvrs -> Ustar, with R_Len = uc.getLen(true).
Uuvrs_as_Ustar_Squares(cell, Uuvrs) ==
  [k \in 1..6 |->
     FMul(Uuvrs[k], R_Len_Products(cell.R_Len)[IF k > 3 THEN k - 3 ELSE k])]

Uuvrs_as_Ustar(cell, Uuvrs) ==
  [k \in 1..6 |-> FMul(Uuvrs[k], R_Len_Products(cell.R_Len)[k])]

\* Ustar -> Uuvrs.
Ustar_as_Uuvrs_Squares(cell, Ustar) ==
  [k \in 1..6 |->
     FDivWide(Ustar[k], R_Len_Products(cell.R_Len)[IF k > 3 THEN 1 ELSE k])]

Ustar_as_Uuvrs(cell, Ustar) ==
  [k \in 1..6 |-> FDivWide(Ustar[k], R_Len_Products(cell.R_Len)[k])]

\* Ustar -> beta and beta -> Ustar.
Ustar_as_beta(Ustar) == array_scale(TwoPiSquared, Ustar)
beta_as_Ustar(beta) == array_over(beta, TwoPiSquared)

(***************************************************************************)
(* The congruence transform                                                *)
(***************************************************************************)

\* Six components out of a dense 3x3 matrix: the diagonal, then the
\* elements (1,2), (1,3) and (2,3).
SymMx33_as_Xaniso(m) == <<m[1], m[5], m[9], m[2], m[3], m[6]>>

\* MatrixLite::multiply of two 3x3 matrices.
multiply33(a, b) ==
  [k \in 1..9 |->
     LET row == (k - 1) \div 3
         col == (k - 1) % 3
     IN    FMul(a[3 * row + 1], b[col + 1]) + FMul(a[3 * row + 2], b[col + 4])
         + FMul(a[3 * row + 3], b[col + 7])]

\* MatrixLite::transpose of a 3x3 matrix.
transpose(a) == [k \in 1..9 |-> a[3 * ((k - 1) % 3) + ((k - 1) \div 3) + 1]]

\* A * X * At: the product A X first, then its product with At.
A_X_At_NoTranspose(A, X) == multiply33(multiply33(A, X), A)

A_X_At(A, X) == multiply33(multiply33(A, X), transpose(A))

A_Xaniso_At(A, Xaniso) == SymMx33_as_Xaniso(A_X_At(A, Xaniso_as_SymMx33(Xaniso)))

\* Ucart -> Ustar with the fractionalization matrix.
Ucart_as_Ustar(cell, Ucart) ==
  A_Xaniso_At(cell.FractionalizationMatrix, Ucart)

\* Ustar -> Ucart with the orthogonalization matrix.
Ustar_as_Ucart(cell, Ustar) ==
  A_Xaniso_At(cell.OrthogonalizationMatrix, Ustar)

(***************************************************************************)
(* Unit cells and the inputs of the conversions                            *)
(***************************************************************************)

Identity == <<Scale, 0, 0, 0, Scale, 0, 0, 0, Scale>>

\* A unit cell is given by what the conversions read from it: the
\* reciprocal edge lengths uc.getLen(true), the fractionalization matrix
\* and the orthogonalization matrix.
\* a = b = c = 1, all angles 90 degrees.
CubicCell ==
  [ R_Len |-> <<Scale, Scale, Scale>>,
    FractionalizationMatrix |-> Identity,
    OrthogonalizationMatrix |-> Identity ]

\* a = 2, b = 4, c = 5, all angles 90 degrees.
OrthorhombicCell ==
  [ R_Len |-> <<Scale \div 2, Scale \div 4, Scale \div 5>>,
    FractionalizationMatrix |->
      <<Scale \div 2, 0, 0, 0, Scale \div 4, 0, 0, 0, Scale \div 5>>,
    OrthogonalizationMatrix |->
      <<2 * Scale, 0, 0, 0, 4 * Scale, 0, 0, 0, 5 * Scale>> ]

\* a = 2, b = 5, c = 1, cos(gamma) = 0.6, sin(gamma) = 0.8.
MonoclinicCell ==
  [ R_Len |-> <<(5 * Scale) \div 8, Scale \div 4, Scale>>,
    FractionalizationMatrix |->
      <<Scale \div 2, -((3 * Scale) \div 8), 0,
        0, Scale \div 4, 0,
        0, 0, Scale>>,
    OrthogonalizationMatrix |->
      <<2 * Scale, 3 * Scale, 0,
        0, 4 * Scale, 0,
        0, 0, Scale>> ]

\* a = b = 2, c = 1, gamma = 120 degrees: the elements with the square root
\* of 3 are rounded, so the two matrices are inverses only approximately.
HexagonalCell ==
  [ R_Len |-> <<5773503, 5773503, Scale>>,
    FractionalizationMatrix |->
      <<Scale \div 2, 2886751, 0,
        0, 5773503, 0,
        0, 0, Scale>>,
    OrthogonalizationMatrix |->
      <<2 * Scale, -Scale, 0,
        0, 17320508, 0,
        0, 0, Scale>> ]

UnitCells == {CubicCell, OrthorhombicCell, MonoclinicCell, HexagonalCell}

\* Isotropic inputs of the scalar conversions: 0, 0.05, ..., MaxScalar*0.05.
MaxScalar == 40
ScalarStep == Scale \div 20

Scalars == { u * ScalarStep : u \in 0..MaxScalar }

\* Miller indices: every component in -MaxIndex .. MaxIndex.
MaxIndex == 1

MillerIndices ==
  { <<h, k, l>> : h \in -MaxIndex..MaxIndex, k \in -MaxIndex..MaxIndex,
                  l \in -MaxIndex..MaxIndex }

\* Values of (sin(theta)/lambda)^2: 0, 0.25, ..., MaxStol2*0.25.
MaxStol2 == 4

Stol2s == { k * (Scale \div 4) : k \in 0..MaxStol2 }

(***************************************************************************)
(* The inputs of the congruence transform                                  *)
(***************************************************************************)

\* Matrix elements are multiples of one third, rounded to the grid.
Third == Scale \div 3
MaxEntry == 1
MatrixEntries == { k * Third : k \in -MaxEntry..MaxEntry }

\* Dense matrices that are neither triangular nor symmetric: four elements
\* vary, five are fixed.
DenseMatrices ==
  { << a, b, Third,
       c, e, -Third,
       Unit, Third, Scale >> :
      a \in MatrixEntries, b \in MatrixEntries,
      c \in MatrixEntries, e \in MatrixEntries }

\* The matrices of the unit cells, which are upper triangular.
CellMatrices ==
  { c.FractionalizationMatrix : c \in UnitCells }
    \cup { c.OrthogonalizationMatrix : c \in UnitCells }

Matrices == DenseMatrices \cup CellMatrices

\* Tensor components that are multiples of one seventh, rounded to the grid:
\* a diagonal of 1..MaxSeventh sevenths, off-diagonal elements of
\* -MaxOffSeventh..MaxOffSeventh sevenths.
Seventh == Scale \div 7
MaxSeventh == 2
MaxOffSeventh == 1

SeventhTensors ==
  { <<a * Seventh, b * Seventh, c * Seventh,
      e * Seventh, f * Seventh, g * Seventh>> :
      a \in 1..MaxSeventh, b \in 1..MaxSeventh, c \in 1..MaxSeventh,
      e \in -MaxOffSeventh..MaxOffSeventh,
      f \in -MaxOffSeventh..MaxOffSeventh,
      g \in -MaxOffSeventh..MaxOffSeventh }

(***************************************************************************)
(* Debye-Waller factors                                                    *)
(***************************************************************************)

\* The exponential series in Horner form, terms k .. 12:
\* 1 + x/k * (1 + x/(k+1) * ( ... )).
RECURSIVE ExpHorner(_, _)
ExpHorner(x, k) ==
  IF k > 12
  THEN Scale
  ELSE Scale + RDiv(FMul(x, ExpHorner(x, k + 1)), k)

\* std::exp: the series for |x| <= 1/2, the square of exp(x/2) beyond it;
\* below -17 the value is less than half a unit of the last place.
RECURSIVE FExp(_)
FExp(x) ==
  IF IsNaN(x) THEN NaN
  ELSE IF x < -17 * Scale THEN 0
  ELSE IF 2 * Abs(x) <= Scale THEN ExpHorner(x, 1)
  ELSE LET h == FExp(RDiv(x, 2)) IN FMul(h, h)

\* uc.Q(MIx): the square of the length of the reciprocal-lattice vector.
Q(cell, h) ==
  LET v == multiply(transpose(cell.FractionalizationMatrix),
                    <<h[1] * Scale, h[2] * Scale, h[3] * Scale>>)
  IN  dot(v, v)

\* Isotropic factor given (sin(theta)/lambda)^2 and Biso, or Uiso.
DebyeWallerFactorBiso(st, Biso) == FExp(FMul(-Biso, st))

DebyeWallerFactorUiso(st, Uiso) == DebyeWallerFactorBiso(st, U_as_B(Uiso))

\* Isotropic factor given a unit cell, a Miller index and Biso, or Uiso.
DebyeWallerFactorBiso_MIx(cell, h, Biso) ==
  DebyeWallerFactorBiso(RDiv(Q(cell, h), 4), Biso)

DebyeWallerFactorUiso_MIx(cell, h, Uiso) ==
  DebyeWallerFactorBiso_MIx(cell, h, U_as_B(Uiso))

\* The sum over the six components weighted with the index products.
IndexSum_Unweighted(h, x) == x[1] + x[2] + x[3] + 2 * x[4] + 2 * x[5] + 2 * x[6]

IndexSum(h, x) ==
    (h[1] * h[1]) * x[1] + (h[2] * h[2]) * x[2] + (h[3] * h[3]) * x[3]
  + (2 * h[1] * h[2]) * x[4] + (2 * h[1] * h[3]) * x[5]
  + (2 * h[2] * h[3]) * x[6]

\* The arguments of std::exp in the two anisotropic factors.
ExponentUstar(h, Ustar) == FMul(-TwoPiSquared, IndexSum(h, Ustar))
Exponent_beta(h, beta) == -IndexSum(h, beta)

\* Anisotropic factors given a Miller index and Ustar, or beta.
DebyeWallerFactorUstar(h, Ustar) == FExp(ExponentUstar(h, Ustar))
DebyeWallerFactor_beta(h, beta) == FExp(Exponent_beta(h, beta))

\* The inputs on which the anisotropic factors stay within the range of the
\* fixed-point numbers: the exponent is at most 5.
InRangeExp(h, x) == ExponentUstar(h, x) <= 5 * Scale

(***************************************************************************)
(* Fractional coordinates                                                  *)
(***************************************************************************)

\* The coordinates are floating-point numbers with a short mantissa: the
\* integer n stands for n / One, and a number is representable when it has
\* at most Precision significant binary digits.  Sums are rounded to the
\* nearest representable number (ties to even), as the additions of the
\* code are; std::fmod is exact.
FracBits == 8
Precision == 5
One == 2 ^ FracBits
Half == One \div 2

\* The spacing of the representable numbers at the magnitude a >= 0.
RECURSIVE Quantum(_)
Quantum(a) == IF a < 2 ^ Precision THEN 1 ELSE 2 * Quantum(a \div 2)

\* n rounded to the nearest representable number.
RoundP(n) ==
  LET a   == Abs(n)
      qu  == Quantum(a)
      rem == a % qu
      lo  == a - rem
      up  == IF 2 * rem > qu THEN lo + qu
             ELSE IF 2 * rem = qu /\ (lo \div qu) % 2 = 1 THEN lo + qu
             ELSE lo
  IN  IF n < 0 THEN -up ELSE up

\* x + y and x - y in floating point.
FAdd(x, y) == RoundP(x + y)
FSub(x, y) == RoundP(x - y)

\* std::fmod(x, 1.): the remainder with the sign of x.
fmod1(x) == IF x < 0 THEN -((-x) % One) ELSE x % One

\* while (result[i] < 0.) result[i] += 1.
RECURSIVE WhileNegative(_)
WhileNegative(x) == IF x < 0 THEN WhileNegative(FAdd(x, One)) ELSE x

\* while (result[i] >= 1.) result[i] -= 1.
RECURSIVE WhileNotBelowOne(_)
WhileNotBelowOne(x) == IF x >= One THEN WhileNotBelowOne(FSub(x, One)) ELSE x

\* fractional::modPositive
modPositive_OneLoop(e) == [k \in 1..3 |-> WhileNegative(fmod1(e[k]))]

modPositive(e) ==
  [k \in 1..3 |-> WhileNotBelowOne(WhileNegative(fmod1(e[k])))]

\* fractional::modShort
modShort(e) ==
  [k \in 1..3 |->
     LET x == fmod1(e[k])
     IN  IF x <= -Half THEN FAdd(x, One)
         ELSE IF x > Half THEN FSub(x, One)
         ELSE x]

\* The coordinates of the inputs: the representable numbers between
\* -MaxCoord and MaxCoord.
MaxCoord == 3

Coords == { n \in (-MaxCoord * One)..(MaxCoord * One) : RoundP(n) = n }

\* The input vectors: x, its negative and x shifted by one half.
Fractionals == { <<x, -x, FAdd(x, Half)>> : x \in Coords }

(***************************************************************************)
(* reference_coordinate_residual_sum: the values of one pass               *)
(***************************************************************************)

\* delta[k] = site[k] - ref_site[k]
Delta(site, ref_site) == [k \in 1..3 |-> site[k] - ref_site[k]]

\* (delta[0]*delta[0]*weight) + (delta[1]*delta[1]*weight)
\*   + (delta[2]*delta[2]*weight)
ResidualTerm(delta, weight) ==
    FMul(FMul(delta[1], delta[1]), weight)
  + FMul(FMul(delta[2], delta[2]), weight)
  + FMul(FMul(delta[3], delta[3]), weight)

\* gradient[k] = delta[k]*2.0*weight
Gradient(delta, weight) ==
  [k \in 1..3 |-> FMul(FMul(delta[k], 2 * Scale), weight)]

\* gradient_array[ i_seqs[0] ] += gradient
Accumulate(entry, gradient) == [k \in 1..3 |-> entry[k] + gradient[k]]

\* MMTBX_ASSERT(i_seqs[0] < sites_cart.size())
AssertionHolds(proxy, sites) == proxy.i_seqs[1] < Len(sites)

\* The index is one of gradient_array: operator[] of af::ref does not
\* check it.
InBounds(index, array) == index < Len(array)

\* The sites, reference sites, weights and gradients of the inputs.
AllSites == << <<Scale, 0, Unit>>, <<-Unit, 2 * Scale, Scale>>,
               <<0, Unit, -Scale>>, <<Scale, Scale, Scale>> >>

RefSites == { <<Unit, 0, 0>>, <<0, Scale, -Unit>> }

Weights == { Scale, 5 * Unit }

AllGradients == << <<Unit, -Unit, 0>>, <<0, Scale, 3 * Unit>>,
                   <<-Scale, 0, Unit>>, <<Unit, Unit, Unit>> >>

\* sites_cart and gradient_array have 0 .. MaxSites and 0 .. MaxGradients
\* elements, the proxies are at most MaxProxies, with i_seqs[0] in
\* 0 .. MaxISeq.
MaxSites == 2
MaxGradients == 2
MaxProxies == 3
MaxISeq == 2

Proxies ==
  [ i_seqs : { <<n>> : n \in 0..MaxISeq }, ref_sites : RefSites,
    weight : Weights ]

ProxyLists ==
  UNION { [1..n -> Proxies] : n \in 0..MaxProxies }

(***************************************************************************)
(* State                                                                   *)
(***************************************************************************)

VARIABLES
  call,       \* the operation under way
  pc,         \* the position in it
  outcome,    \* "running", "ok", or the failure the call ended with
  uiso,       \* the isotropic value of the last conversion
  adp,        \* the tensor handed to the operation
  r, s, t, p, q, D, zeta, phi, rzeta, i,      \* locals of Eigenvalues
  tolerance,  \* the tolerance argument of Eigenvectors
  M, d, iM,   \* locals of Eigenvectors
  V, rm_tolerance, RunAwayCounter,            \* recursively_multiply
  result,     \* the value under construction, finally the value returned
  uc, MIx, stol2,                             \* arguments of the conversions
  elems,      \* the elements of a fractional coordinate vector
  sites_cart, proxies, gradient_array,        \* arguments of
                                              \* reference_coordinate_residual_sum
  i_proxy, residual_sum,                      \* its loop index i and its sum
  gradient_initial,  \* gradient_array as it was passed in
  written,           \* the indices gradient_array was written at
  Mx33,       \* the matrix A handed to A_Xaniso_At
  AXAt        \* the dense product A_X_At returned to A_Xaniso_At

evLocals == <<r, s, t, p, q, D, zeta, phi, rzeta, i>>
vecLocals == <<tolerance, M, d, iM>>
rmLocals == <<V, rm_tolerance, RunAwayCounter>>
convLocals == <<uc, MIx, stol2>>
rcLocals == <<sites_cart, proxies, gradient_array, i_proxy, residual_sum,
              gradient_initial, written>>
symLocals == <<Mx33, AXAt>>
others == <<convLocals, elems, rcLocals, symLocals>>
vars == <<call, pc, outcome, uiso, adp, evLocals, vecLocals, rmLocals, result,
          others>>

\* The three kinds of failure.
not_positive_definite == "not_positive_definite"
cctbx_internal_error == "cctbx_internal_error"
cctbx_assert_failure == "cctbx_assert"

\* The failure of MMTBX_ASSERT, and the end of a call by a write outside of
\* an array.
mmtbx_assert_failure == "mmtbx_assert"
undefined_behaviour == "undefined behaviour"

Init ==
  /\ call = "none"
  /\ pc = "idle"
  /\ outcome = "running"
  /\ uiso = 0
  /\ adp = <<0, 0, 0, 0, 0, 0>>
  /\ r = 0 /\ s = 0 /\ t = 0 /\ p = 0 /\ q = 0 /\ D = 0
  /\ zeta = 0 /\ phi = 0 /\ rzeta = 0 /\ i = 0
  /\ tolerance = DefaultTolerance
  /\ M = <<>> /\ d = 0 /\ iM = 0
  /\ V = <<0, 0, 0>> /\ rm_tolerance = DefaultTolerance /\ RunAwayCounter = 0
  /\ result = <<>>
  /\ uc = CubicCell /\ MIx = <<0, 0, 0>> /\ stol2 = 0
  /\ elems = <<0, 0, 0>>
  /\ sites_cart = <<>> /\ proxies = <<>> /\ gradient_array = <<>>
  /\ i_proxy = 0 /\ residual_sum = 0
  /\ gradient_initial = <<>> /\ written = <<>>
  /\ Mx33 = Identity /\ AXAt = <<>>

(***************************************************************************)
(* Inputs                                                                  *)
(***************************************************************************)

\* A caller holds a Cartesian tensor.
Input_Ucart ==
  /\ UNCHANGED others
  /\ pc = "idle"
  /\ \E a \in Tensors : adp' = a
  /\ pc' = "have_ucart"
  /\ UNCHANGED <<call, outcome, uiso, evLocals, vecLocals, rmLocals, result>>

\* A caller holds an indefinite tensor.
Input_Indefinite ==
  /\ UNCHANGED others
  /\ pc = "idle"
  /\ \E a \in Indefinite : adp' = a
  /\ pc' = "have_ucart"
  /\ UNCHANGED <<call, outcome, uiso, evLocals, vecLocals, rmLocals, result>>

\* A caller converts an isotropic value: Uiso_as_Ucart.
Input_Uiso ==
  /\ UNCHANGED others
  /\ pc = "idle"
  /\ \E u \in Uisos : uiso' = u /\ adp' = Uiso_as_Ucart(u)
  /\ call' = "Uiso_as_Ucart"
  /\ pc' = "have_ucart"
  /\ UNCHANGED <<outcome, evLocals, vecLocals, rmLocals, result>>

\* Ucart_as_Uiso followed by Uiso_as_Ucart.
RoundTrip ==
  /\ UNCHANGED others
  /\ pc = "have_ucart"
  /\ call' = "RoundTrip"
  /\ uiso' = Ucart_as_Uiso(adp)
  /\ result' = Uiso_as_Ucart(uiso')
  /\ outcome' = "ok"
  /\ pc' = "done"
  /\ UNCHANGED <<adp, evLocals, vecLocals, rmLocals>>

(***************************************************************************)
(* Eigenvalues                                                             *)
(***************************************************************************)

\* The coefficients of the cubic, the reduced form and the discriminant.
Eigenvalues_Begin ==
  /\ UNCHANGED others
  /\ pc = "have_ucart"
  /\ InRangeEigenvalues(adp)
  /\ call' = "Eigenvalues"
  /\ r' = Coeff_r(adp)
  /\ s' = Coeff_s(adp)
  /\ t' = Coeff_t(adp)
  /\ p' = Coeff_p(r', s')
  /\ q' = Coeff_q(r', s', t')
  /\ D' = Discriminant(p', q')
  /\ pc' = "ev_assert"
  /\ UNCHANGED <<outcome, uiso, adp, zeta, phi, rzeta, i, vecLocals, rmLocals,
                 result>>

\* cctbx_assert(D <= 0.), then zeta, phi and rzeta.
Eigenvalues_Assert ==
  /\ UNCHANGED others
  /\ pc = "ev_assert"
  /\ \/ /\ ~DiscriminantAsserted(D)
        /\ outcome' = cctbx_assert_failure
        /\ pc' = "done"
        /\ UNCHANGED <<zeta, phi, rzeta, i, result>>
     \/ /\ DiscriminantAsserted(D)
        /\ zeta' = Zeta(p)
        /\ phi' = Phi(q, zeta')
        /\ rzeta' = RZeta(zeta')
        /\ i' = 0
        /\ result' = <<>>
        /\ pc' = "ev_root"
        /\ UNCHANGED outcome
  /\ UNCHANGED <<call, uiso, adp, r, s, t, p, q, D, vecLocals, rmLocals>>

\* One pass of the loop over the three roots.
Eigenvalues_Root ==
  /\ UNCHANGED others
  /\ pc = "ev_root"
  /\ LET x == Root(i, r, phi, rzeta)
     IN  /\ result' = Append(result, x)
         /\ \/ /\ LeZero(x)
               /\ outcome' = not_positive_definite
               /\ pc' = "done"
               /\ UNCHANGED i
            \/ /\ ~LeZero(x)
               /\ i' = i + 1
               /\ IF i' < 3
                  THEN pc' = "ev_root" /\ UNCHANGED outcome
                  ELSE pc' = "done" /\ outcome' = "ok"
  /\ UNCHANGED <<call, uiso, adp, r, s, t, p, q, D, zeta, phi, rzeta,
                 vecLocals, rmLocals>>

(***************************************************************************)
(* Eigenvectors and recursively_multiply                                   *)
(***************************************************************************)

\* Eigenvectors up to the loop over M[0], M[1]: the matrix, its determinant
\* and its inverse.
Eigenvectors_Begin ==
  /\ UNCHANGED others
  /\ pc = "have_ucart"
  /\ InRangeEigenvectors(adp)
  /\ call' = "Eigenvectors"
  /\ \E tol \in Tolerances : tolerance' = tol
  /\ d' = Determinant(Xaniso_as_SymMx33(adp))
  /\ iM' = 0
  /\ result' = <<>>
  /\ IF d' = 0
     THEN /\ M' = <<Xaniso_as_SymMx33(adp)>>
          /\ outcome' = not_positive_definite
          /\ pc' = "done"
     ELSE /\ M' = << Xaniso_as_SymMx33(adp),
                     Inverse(Xaniso_as_SymMx33(adp), d') >>
          /\ pc' = "vec_loop"
          /\ UNCHANGED outcome
  /\ UNCHANGED <<uiso, adp, evLocals, rmLocals>>

\* The head of one pass of the loop: the start vector, and the entry into
\* recursively_multiply(M[iM], V).
Eigenvectors_Start ==
  /\ UNCHANGED others
  /\ pc = "vec_loop"
  /\ V' = UnitVector(array_max_index(array_abs(DiagonalElements(M[iM + 1]))))
  /\ rm_tolerance' = PassedTolerance(tolerance)
  /\ RunAwayCounter' = 0
  /\ pc' = "rm_loop"
  /\ UNCHANGED <<call, outcome, uiso, adp, evLocals, vecLocals, result>>

\* throw inside recursively_multiply or Eigenvectors: the call ends.
Throw(e) ==
  /\ outcome' = e
  /\ pc' = "done"
  /\ UNCHANGED <<iM, result>>

\* recursively_multiply returns v: result[iM] = v, the test of
\* result[iM] * result[iM], and the end of the pass.
Return(v) ==
  IF dot(v, v) = 0
  THEN /\ result' = Append(result, v)
       /\ outcome' = not_positive_definite
       /\ pc' = "done"
       /\ UNCHANGED iM
  ELSE /\ result' = Append(result, v)
       /\ iM' = iM + 1
       /\ pc' = IF iM' < 2 THEN "vec_loop" ELSE "vec_cross"
       /\ UNCHANGED outcome

\* One pass of the for (;;) loop of recursively_multiply.
recursively_multiply_Step ==
  /\ UNCHANGED others
  /\ pc = "rm_loop"
  /\ LET MV0        == multiply(M[iM + 1], V)
         abs_lambda == FSqrt(dot(MV0, MV0))
     IN  IF abs_lambda = 0
         THEN UNCHANGED <<V, RunAwayCounter>> /\ Return(MV0)
         ELSE LET MV == Normalized(MV0, abs_lambda)
                  scaled_tolerance == ScaledTolerance(MV, rm_tolerance)
              IN  IF NegativeConvergence(MV, V, scaled_tolerance)
                  THEN UNCHANGED <<V, RunAwayCounter>>
                       /\ Throw(not_positive_definite)
                  ELSE /\ V' = MV
                       /\ IF approx_equal(MV, V, scaled_tolerance)
                          THEN UNCHANGED RunAwayCounter /\ Return(MV)
                          ELSE /\ RunAwayCounter' = RunAwayCounter + 1
                               /\ IF RunAway(RunAwayCounter')
                                  THEN Throw(cctbx_internal_error)
                                  ELSE /\ pc' = "rm_loop"
                                       /\ UNCHANGED <<outcome, iM, result>>
  /\ UNCHANGED <<call, uiso, adp, evLocals, tolerance, M, d, rm_tolerance>>

\* cctbx_assert(result[2] * result[2] != 0.), then return result.
CrossOutcome_Thrown(c) ==
  IF dot(c, c) # 0 THEN "ok" ELSE not_positive_definite

CrossOutcome(c) == IF dot(c, c) # 0 THEN "ok" ELSE cctbx_assert_failure

\* After the loop: result[2] = cross_product(result[0], result[1]) and the
\* assertion on it.
Eigenvectors_Cross ==
  /\ UNCHANGED others
  /\ pc = "vec_cross"
  /\ LET c == cross_product(result[1], result[2])
     IN  /\ result' = Append(result, c)
         /\ outcome' = CrossOutcome(c)
  /\ pc' = "done"
  /\ UNCHANGED <<call, uiso, adp, evLocals, vecLocals, rmLocals>>

(***************************************************************************)
(* The conversions                                                         *)
(***************************************************************************)

\* A caller holds a six-component tensor and a unit cell.
Input_Tensor ==
  /\ pc = "idle"
  /\ \E a \in Tensors : adp' = a
  /\ \E c \in UnitCells : uc' = c
  /\ pc' = "have_tensor"
  /\ UNCHANGED <<call, outcome, uiso, evLocals, vecLocals, rmLocals, result,
                 MIx, stol2, elems, rcLocals,
                 symLocals>>

\* A caller holds an isotropic value.
Input_Scalar ==
  /\ pc = "idle"
  /\ \E u \in Scalars : uiso' = u
  /\ pc' = "have_scalar"
  /\ UNCHANGED <<call, outcome, adp, evLocals, vecLocals, rmLocals, result,
                 others>>

\* The six-component conversions that have an inverse conversion.
TensorConversions ==
  { "Uuvrs_as_Ustar", "Ustar_as_Uuvrs", "Ustar_as_beta", "beta_as_Ustar",
    "U_as_B_aniso", "B_as_U_aniso" }

\* The two conversions by a congruence transform.
CongruenceConversions == { "Ucart_as_Ustar", "Ustar_as_Ucart" }

\* The call of the conversion named c.
Convert(c, cell, x) ==
  CASE c = "Uuvrs_as_Ustar" -> Uuvrs_as_Ustar(cell, x)
    [] c = "Ustar_as_Uuvrs" -> Ustar_as_Uuvrs(cell, x)
    [] c = "Ustar_as_beta"  -> Ustar_as_beta(x)
    [] c = "beta_as_Ustar"  -> beta_as_Ustar(x)
    [] c = "U_as_B_aniso"   -> U_as_B_aniso(x)
    [] c = "B_as_U_aniso"   -> B_as_U_aniso(x)
    [] c = "Ucart_as_Ustar" -> Ucart_as_Ustar(cell, x)
    [] c = "Ustar_as_Ucart" -> Ustar_as_Ucart(cell, x)

\* The name of the conversion documented as the inverse of c.
InverseOf(c) ==
  CASE c = "Uuvrs_as_Ustar" -> "Ustar_as_Uuvrs"
    [] c = "Ustar_as_Uuvrs" -> "Uuvrs_as_Ustar"
    [] c = "Ustar_as_beta"  -> "beta_as_Ustar"
    [] c = "beta_as_Ustar"  -> "Ustar_as_beta"
    [] c = "U_as_B_aniso"   -> "B_as_U_aniso"
    [] c = "B_as_U_aniso"   -> "U_as_B_aniso"
    [] c = "Ucart_as_Ustar" -> "Ustar_as_Ucart"
    [] c = "Ustar_as_Ucart" -> "Ucart_as_Ustar"

\* A conversion of the tensor followed by its inverse: result holds the
\* converted tensor and the tensor converted back.
Tensor_RoundTrip ==
  /\ pc = "have_tensor"
  /\ \E c \in TensorConversions \cup CongruenceConversions :
       /\ call' = c
       /\ result' = << Convert(c, uc, adp),
                       Convert(InverseOf(c), uc, Convert(c, uc, adp)) >>
  /\ outcome' = "ok"
  /\ pc' = "done"
  /\ UNCHANGED <<uiso, adp, evLocals, vecLocals, rmLocals, others>>

\* A conversion of the isotropic value followed by its inverse.
Scalar_RoundTrip ==
  /\ pc = "have_scalar"
  /\ \/ /\ call' = "U_as_B"
        /\ result' = <<U_as_B(uiso), B_as_U(U_as_B(uiso))>>
     \/ /\ call' = "B_as_U"
        /\ result' = <<B_as_U(uiso), U_as_B(B_as_U(uiso))>>
     \/ /\ call' = "Uiso_as_Ucart"
        /\ result' = <<Uiso_as_Ucart(uiso), Ucart_as_Uiso(Uiso_as_Ucart(uiso))>>
  /\ outcome' = "ok"
  /\ pc' = "done"
  /\ UNCHANGED <<uiso, adp, evLocals, vecLocals, rmLocals, others>>

(***************************************************************************)
(* The Debye-Waller factors                                                *)
(***************************************************************************)

\* A caller holds a six-component tensor and a Miller index.
Input_Ustar ==
  /\ pc = "idle"
  /\ \E a \in Tensors : adp' = a
  /\ \E h \in MillerIndices : MIx' = h
  /\ pc' = "have_ustar"
  /\ UNCHANGED <<call, outcome, uiso, evLocals, vecLocals, rmLocals, result,
                 uc, stol2, elems, rcLocals,
                 symLocals>>

\* DebyeWallerFactorUiso(stol2, Uiso)
DebyeWaller_Uiso ==
  /\ pc = "have_scalar"
  /\ \E st \in Stol2s : stol2' = st
  /\ call' = "DebyeWallerFactorUiso"
  /\ result' = DebyeWallerFactorUiso(stol2', uiso)
  /\ outcome' = "ok"
  /\ pc' = "done"
  /\ UNCHANGED <<uiso, adp, evLocals, vecLocals, rmLocals, uc, MIx, elems,
                 rcLocals,
                 symLocals>>

\* DebyeWallerFactorUiso(uc, MIx, Uiso)
DebyeWaller_Uiso_MIx ==
  /\ pc = "have_scalar"
  /\ \E c \in UnitCells : uc' = c
  /\ \E h \in MillerIndices : MIx' = h
  /\ call' = "DebyeWallerFactorUiso_MIx"
  /\ result' = DebyeWallerFactorUiso_MIx(uc', MIx', uiso)
  /\ outcome' = "ok"
  /\ pc' = "done"
  /\ UNCHANGED <<uiso, adp, evLocals, vecLocals, rmLocals, stol2, elems,
                 rcLocals,
                 symLocals>>

\* DebyeWallerFactorUstar(MIx, Ustar) or DebyeWallerFactor_beta(MIx, beta)
DebyeWaller_Aniso ==
  /\ pc = "have_ustar"
  /\ InRangeExp(MIx, adp)
  /\ \/ /\ call' = "DebyeWallerFactorUstar"
        /\ result' = DebyeWallerFactorUstar(MIx, adp)
     \/ /\ call' = "DebyeWallerFactor_beta"
        /\ result' = DebyeWallerFactor_beta(MIx, adp)
  /\ outcome' = "ok"
  /\ pc' = "done"
  /\ UNCHANGED <<uiso, adp, evLocals, vecLocals, rmLocals, others>>

(***************************************************************************)
(* fractional::modPositive and fractional::modShort                        *)
(***************************************************************************)

\* A fractional coordinate vector is constructed.
Input_Fractional ==
  /\ pc = "idle"
  /\ \E e \in Fractionals : elems' = e
  /\ pc' = "have_elems"
  /\ UNCHANGED <<call, outcome, uiso, adp, evLocals, vecLocals, rmLocals,
                 result, convLocals, rcLocals,
                 symLocals>>

\* modPositive() const
Call_modPositive ==
  /\ pc = "have_elems"
  /\ call' = "modPositive"
  /\ result' = modPositive(elems)
  /\ outcome' = "ok"
  /\ pc' = "done"
  /\ UNCHANGED <<uiso, adp, evLocals, vecLocals, rmLocals, others>>

\* modShort() const
Call_modShort ==
  /\ pc = "have_elems"
  /\ call' = "modShort"
  /\ result' = modShort(elems)
  /\ outcome' = "ok"
  /\ pc' = "done"
  /\ UNCHANGED <<uiso, adp, evLocals, vecLocals, rmLocals, others>>

(***************************************************************************)
(* reference_coordinate_residual_sum                                       *)
(***************************************************************************)

\* The call with its three arguments, up to the head of the loop.
residual_sum_Begin ==
  /\ pc = "idle"
  /\ \E n \in 0..MaxSites : sites_cart' = SubSeq(AllSites, 1, n)
  /\ \E n \in 0..MaxGradients : gradient_array' = SubSeq(AllGradients, 1, n)
  /\ \E l \in ProxyLists : proxies' = l
  /\ gradient_initial' = gradient_array'
  /\ written' = <<>>
  /\ residual_sum' = 0
  /\ i_proxy' = 0
  /\ call' = "reference_coordinate_residual_sum"
  /\ pc' = "rc_loop"
  /\ UNCHANGED <<outcome, uiso, adp, evLocals, vecLocals, rmLocals, result,
                 convLocals, elems, symLocals>>

\* One pass of the loop over the proxies.
residual_sum_Step ==
  /\ pc = "rc_loop"
  /\ i_proxy < Len(proxies)
  /\ LET proxy == proxies[i_proxy + 1]
         index == proxy.i_seqs[1]
     IN  IF ~AssertionHolds(proxy, sites_cart)
         THEN /\ outcome' = mmtbx_assert_failure
              /\ pc' = "done"
              /\ UNCHANGED <<gradient_array, i_proxy, residual_sum, written>>
         ELSE LET delta == Delta(sites_cart[index + 1], proxy.ref_sites)
                  gradient == Gradient(delta, proxy.weight)
              IN  /\ residual_sum' =
                       residual_sum + ResidualTerm(delta, proxy.weight)
                  /\ written' = Append(written, index)
                  /\ IF InBounds(index, gradient_array)
                     THEN /\ gradient_array' =
                               [gradient_array EXCEPT ![index + 1] =
                                  Accumulate(@, gradient)]
                          /\ i_proxy' = i_proxy + 1
                          /\ UNCHANGED <<outcome, pc>>
                     ELSE \* a write behind the end of gradient_array: it
                          \* goes to memory outside of the array, or it ends
                          \* the program.
                          /\ UNCHANGED gradient_array
                          /\ \/ /\ i_proxy' = i_proxy + 1
                                /\ UNCHANGED <<outcome, pc>>
                             \/ /\ outcome' = undefined_behaviour
                                /\ pc' = "done"
                                /\ UNCHANGED i_proxy
  /\ UNCHANGED <<call, uiso, adp, evLocals, vecLocals, rmLocals, result,
                 convLocals, elems, sites_cart, proxies, gradient_initial,
                 symLocals>>

\* The end of the loop: return residual_sum.
residual_sum_Return ==
  /\ pc = "rc_loop"
  /\ i_proxy >= Len(proxies)
  /\ result' = residual_sum
  /\ outcome' = "ok"
  /\ pc' = "done"
  /\ UNCHANGED <<call, uiso, adp, evLocals, vecLocals, rmLocals, others>>

(***************************************************************************)
(* The six-component encoding and the congruence transform                 *)
(***************************************************************************)

\* A caller holds a matrix A and a six-component tensor.
Input_Congruence ==
  /\ pc = "idle"
  /\ \E a \in Matrices : Mx33' = a
  /\ \E x \in SeventhTensors : adp' = x
  /\ pc' = "have_matrix"
  /\ UNCHANGED <<call, outcome, uiso, evLocals, vecLocals, rmLocals, result,
                 convLocals, elems, rcLocals, AXAt>>

\* The tensor is expanded to its dense matrix and packed again: result
\* holds the dense matrix and the six components read back from it.
Call_Xaniso_as_SymMx33 ==
  /\ pc = "have_matrix"
  /\ call' = "Xaniso_as_SymMx33"
  /\ result' = << Xaniso_as_SymMx33(adp),
                  SymMx33_as_Xaniso(Xaniso_as_SymMx33(adp)) >>
  /\ outcome' = "ok"
  /\ pc' = "done"
  /\ UNCHANGED <<uiso, adp, evLocals, vecLocals, rmLocals, others>>

\* A_Xaniso_At: the dense product that A_X_At returns, and the six
\* components that SymMx33_as_Xaniso keeps of it.
Call_A_Xaniso_At ==
  /\ pc = "have_matrix"
  /\ call' = "A_Xaniso_At"
  /\ AXAt' = A_X_At(Mx33, Xaniso_as_SymMx33(adp))
  /\ result' = A_Xaniso_At(Mx33, adp)
  /\ outcome' = "ok"
  /\ pc' = "done"
  /\ UNCHANGED <<uiso, adp, evLocals, vecLocals, rmLocals, convLocals, elems,
                 rcLocals, Mx33>>

(***************************************************************************)
(* The program                                                             *)
(***************************************************************************)

Next ==
  \/ Input_Ucart
  \/ Input_Uiso
  \/ RoundTrip
  \/ Eigenvalues_Begin
  \/ Eigenvalues_Assert
  \/ Eigenvalues_Root
  \/ Eigenvectors_Begin
  \/ Eigenvectors_Start
  \/ recursively_multiply_Step
  \/ Eigenvectors_Cross

Spec == Init /\ [][Next]_vars

\* Eigenvectors alone, on the indefinite tensors.
NextRunAway ==
  \/ Input_Indefinite
  \/ Eigenvectors_Begin
  \/ Eigenvectors_Start
  \/ recursively_multiply_Step
  \/ Eigenvectors_Cross

SpecRunAway == Init /\ [][NextRunAway]_vars

\* The conversions alone.
NextConversions ==
  \/ Input_Tensor
  \/ Input_Scalar
  \/ Tensor_RoundTrip
  \/ Scalar_RoundTrip
  \/ Input_Ustar
  \/ DebyeWaller_Uiso
  \/ DebyeWaller_Uiso_MIx
  \/ DebyeWaller_Aniso

SpecConversions == Init /\ [][NextConversions]_vars

\* The fractional coordinates alone.
NextFractional ==
  \/ Input_Fractional
  \/ Call_modPositive
  \/ Call_modShort

SpecFractional == Init /\ [][NextFractional]_vars

\* reference_coordinate_residual_sum alone.
NextResidualSum ==
  \/ residual_sum_Begin
  \/ residual_sum_Step
  \/ residual_sum_Return

SpecResidualSum == Init /\ [][NextResidualSum]_vars

\* The six-component encoding and the congruence transform alone.
NextCongruence ==
  \/ Input_Congruence
  \/ Call_Xaniso_as_SymMx33
  \/ Call_A_Xaniso_At

SpecCongruence == Init /\ [][NextCongruence]_vars

(***************************************************************************)
(* Properties                                                              *)
(***************************************************************************)

\* The call of operation c has ended.
Done(c) == call = c /\ pc = "done"

\* The call of operation c has returned a value.
Returned(c) == Done(c) /\ outcome = "ok"

\* Sylvester's criterion: the leading principal minors are positive.
PositiveDefinite(a) ==
  /\ a[1] > 0
  /\ FMul(a[1], a[2]) - FMul(a[4], a[4]) > 0
  /\ Determinant(Xaniso_as_SymMx33(a)) > 0

IsDiagonal(a) == a[4] = 0 /\ a[5] = 0 /\ a[6] = 0

\* C1: whenever Eigenvectors returns a result, the tensor is positive
\* definite (all three eigenvalues are strictly positive); in particular a
\* diagonal tensor with a negative diagonal element never gets a result.
C1_ReturnedVectorsImplyPositiveDefinite ==
  Returned("Eigenvectors") => PositiveDefinite(adp)

\* C2: every triple Eigenvalues returns consists of three strictly positive
\* values.
C2_ReturnedValuesArePositive ==
  Returned("Eigenvalues") =>
    \A k \in 1..3 : ~IsNaN(result[k]) /\ result[k] > 0

\* C3: for every u > 0, Eigenvalues(Uiso_as_Ucart(u)) returns three values
\* equal to u: no error and no undefined value.
C3_IsotropicValuesEqualUiso ==
  (Done("Eigenvalues") /\ uiso > 0) =>
    /\ outcome = "ok"
    /\ \A k \in 1..3 : result[k] = uiso

\* A call of Eigenvalues past the assertion, with a discriminant D > 0.
PositiveDiscriminant ==
  call = "Eigenvalues" /\ pc \in {"ev_root", "done"} /\ D > 0

\* C4 as stated: with D > 0 Eigenvalues fails with not_positive_definite.
C4_PositiveDiscriminantNotPositiveDefinite ==
  (Done("Eigenvalues") /\ D > 0) => outcome = not_positive_definite

\* C4, amended: with D > 0 Eigenvalues computes no root and fails with the
\* failure of cctbx_assert, which is not the not_positive_definite error
\* thrown for a root <= 0.
C4_PositiveDiscriminantFailsAssertion ==
  PositiveDiscriminant =>
    /\ pc = "done"
    /\ outcome = cctbx_assert_failure
    /\ outcome # not_positive_definite

C4_Witness ==
  Done("Eigenvalues") /\ D > 0 /\ outcome = cctbx_assert_failure

\* Eigenvectors has ended with a zero cross product of result[0], result[1].
ZeroCrossProduct ==
  /\ Done("Eigenvectors")
  /\ Len(result) = 3
  /\ result[3] = <<0, 0, 0>>

\* C5 as stated: a zero cross product makes Eigenvectors fail with
\* not_positive_definite.
C5_ZeroCrossNotPositiveDefinite ==
  ZeroCrossProduct => outcome = not_positive_definite

\* C5, amended: a zero cross product makes Eigenvectors fail with the
\* failure of cctbx_assert, not with not_positive_definite.
C5_ZeroCrossFailsAssertion ==
  ZeroCrossProduct =>
    /\ outcome = cctbx_assert_failure
    /\ outcome # not_positive_definite

\* An isotropic tensor: both iterations stay on the first axis.
C5_Witness ==
  /\ ZeroCrossProduct
  /\ adp = Uiso_as_Ucart(adp[1])
  /\ result[1] = result[2]
  /\ outcome = cctbx_assert_failure

\* C6 as stated: no 1001st multiply-normalize step is evaluated, that is,
\* the loop is never entered again after RunAwayLimit steps failed to
\* converge.
C6_NoStepBeyondLimit ==
  pc = "rm_loop" => RunAwayCounter < RunAwayLimit

\* C6, amended: the loop is entered with at most RunAwayLimit steps behind
\* it, so that up to RunAwayLimit + 1 steps are evaluated, and the call
\* fails with cctbx_internal_error (not with not_positive_definite) exactly
\* when RunAwayLimit + 1 steps have failed to converge.
C6_InternalErrorAfterLimitPlusOne ==
  /\ pc = "rm_loop" => RunAwayCounter <= RunAwayLimit
  /\ outcome = cctbx_internal_error <=> RunAwayCounter = RunAwayLimit + 1
  /\ cctbx_internal_error # not_positive_definite

C6_Witness ==
  /\ Done("Eigenvectors")
  /\ outcome = cctbx_internal_error
  /\ RunAwayCounter = RunAwayLimit + 1

\* C7: the power iteration compares with the tolerance its caller passed
\* to Eigenvectors.
C7_IterationUsesCallerTolerance ==
  (call = "Eigenvectors" /\ pc = "rm_loop") => rm_tolerance = tolerance

\* The cross product of a and b, written out.
CrossOf(a, b) ==
  << FMul(a[2], b[3]) - FMul(a[3], b[2]),
     FMul(a[3], b[1]) - FMul(a[1], b[3]),
     FMul(a[1], b[2]) - FMul(a[2], b[1]) >>

\* The scalar product of a and b differs from x by at most tol.
DotWithin(a, b, x, tol) == Abs(dot(a, b) - x) <= tol

DistinctPositiveDiagonal(a) ==
  /\ IsDiagonal(a)
  /\ a[1] > 0 /\ a[2] > 0 /\ a[3] > 0
  /\ a[1] # a[2] /\ a[1] # a[3] /\ a[2] # a[3]

\* x and y differ by at most ten times the default tolerance.
Near(x, y) == ~IsNaN(x) /\ Abs(x - y) <= 10 * DefaultTolerance

\* The positions 1..3 of the largest and of the smallest diagonal element.
Largest(a) == CHOOSE k \in 1..3 : \A j \in 1..3 : a[j] <= a[k]
Smallest(a) == CHOOSE k \in 1..3 : \A j \in 1..3 : a[k] <= a[j]

\* v is the coordinate axis k, up to sign and tolerance.
IsAxis(v, k) ==
  \A j \in 1..3 : IF j = k THEN Near(Abs(v[j]), Scale) ELSE v[j] = 0

\* C9: on a diagonal tensor with three distinct strictly positive elements
\* Eigenvectors returns the axis of the largest element, the axis of the
\* smallest element and the remaining axis, and Eigenvalues returns the
\* three diagonal elements.
C9_DistinctDiagonalSolved ==
  DistinctPositiveDiagonal(adp) =>
    /\ Done("Eigenvectors") =>
         /\ outcome = "ok"
         /\ IsAxis(result[1], Largest(adp))
         /\ IsAxis(result[2], Smallest(adp))
         /\ IsAxis(result[3], 6 - Largest(adp) - Smallest(adp))
    /\ Done("Eigenvalues") =>
         /\ outcome = "ok"
         /\ \A k \in 1..3 : \E j \in 1..3 : Near(result[j], adp[k])

\* The mean of the diagonal elements, on the diagonal.
MeanTensor(a) ==
  LET m == RDiv(a[1] + a[2] + a[3], 3) IN <<m, m, m, 0, 0, 0>>

IsIsotropic(a) == IsDiagonal(a) /\ a[1] = a[2] /\ a[2] = a[3]

\* C10 as stated: Uiso_as_Ucart(Ucart_as_Uiso(T)) equals T within rounding,
\* for every tensor T.
C10_RoundTripIsIdentity ==
  Done("RoundTrip") =>
    \A k \in 1..6 : Abs(result[k] - adp[k]) <= DefaultTolerance

\* C10, amended: Uiso_as_Ucart(Ucart_as_Uiso(T)) is the isotropic tensor of
\* the mean of the diagonal of T; it equals T exactly when T is isotropic.
C10_RoundTripIsMeanTensor ==
  Done("RoundTrip") =>
    /\ result = MeanTensor(adp)
    /\ result = adp <=> IsIsotropic(adp)

C10_Witness ==
  Done("RoundTrip") /\ ~IsIsotropic(adp) /\ result # adp


\* The round trips differ from the input by rounding only: 1.e-5 covers the
\* rounding of a product or quotient with a factor up to 8 pi^2.
ConversionTolerance == 100

\* The elements of x and y differ by at most tol.
Close(x, y, tol) ==
  /\ Len(x) = Len(y)
  /\ \A k \in 1..Len(x) : ~IsNaN(x[k]) /\ ~IsNaN(y[k]) /\ Abs(x[k] - y[k]) <= tol

\* A round trip of the tensor, or of the isotropic value, has ended.
TensorTripDone == pc = "done" /\ call \in TensorConversions
ScalarTripDone == pc = "done" /\ call \in {"U_as_B", "B_as_U", "Uiso_as_Ucart"}

\* C11 as stated: every scaling conversion followed by its inverse returns
\* exactly the value it started from.
C11_RoundTripIsExact ==
  /\ TensorTripDone => result[2] = adp
  /\ ScalarTripDone => result[2] = uiso

\* C11: every scaling conversion followed by its inverse returns the value
\* it started from up to the rounding of the two operations; the isotropic
\* conversion pair Uiso_as_Ucart / Ucart_as_Uiso, which only adds three equal
\* values and divides by 3, reproduces it exactly on the fixed-point grid.
C11_RoundTripWithinRounding ==
  /\ TensorTripDone => Close(result[2], adp, ConversionTolerance)
  /\ ScalarTripDone => Close(<<result[2]>>, <<uiso>>, ConversionTolerance)
  /\ (pc = "done" /\ call = "Uiso_as_Ucart") => result[2] = uiso

\* A round trip through beta_as_Ustar and Ustar_as_beta that changed the
\* tensor by rounding, and no more.
C11_Witness ==
  /\ pc = "done"
  /\ call = "beta_as_Ustar"
  /\ result[2] # adp
  /\ Close(result[2], adp, ConversionTolerance)


\* A and B are inverse matrices, as far as the matrix product tells.
IsInverse(A, B) == multiply33(A, B) = Identity /\ multiply33(B, A) = Identity

\* The element (row, col) of A T At written out as the double sum over
\* A[row,k] T[k,l] A[col,l].
RECURSIVE CongruenceSum(_, _, _, _, _)
CongruenceSum(A, T, row, col, n) ==
  IF n = 0
  THEN 0
  ELSE LET k == (n - 1) \div 3
           l == (n - 1) % 3
       IN  FMul(FMul(A[3 * row + k + 1], T[3 * k + l + 1]), A[3 * col + l + 1])
           + CongruenceSum(A, T, row, col, n - 1)

\* The six components (11, 22, 33, 12, 13, 23) of A T At.
Congruence(A, x) ==
  LET T == Xaniso_as_SymMx33(x)
  IN  << CongruenceSum(A, T, 0, 0, 9), CongruenceSum(A, T, 1, 1, 9),
         CongruenceSum(A, T, 2, 2, 9), CongruenceSum(A, T, 0, 1, 9),
         CongruenceSum(A, T, 0, 2, 9), CongruenceSum(A, T, 1, 2, 9) >>

\* The matrix the conversion c of the congruence pair is documented to use.
MatrixOf(c, cell) ==
  IF c = "Ucart_as_Ustar" THEN cell.FractionalizationMatrix
                          ELSE cell.OrthogonalizationMatrix

CongruenceTripDone == pc = "done" /\ call \in CongruenceConversions

DiagonalMatrix(R_Len) == <<R_Len[1], 0, 0, 0, R_Len[2], 0, 0, 0, R_Len[3]>>

\* C13: Uuvrs_as_Ustar multiplies the components (11, 22, 33, 12, 13, 23) by
\* (a*^2, b*^2, c*^2, a* b*, a* c*, b* c*); the result is the congruence
\* C U Ct with C = diag(a*, b*, c*) (the two ways of computing it agree up
\* to rounding), and with reciprocal edge lengths (1, 1, 1) it is the input.
C13_UuvrsScaledByEdgeProducts ==
  (pc = "done" /\ call = "Uuvrs_as_Ustar") =>
    LET a == uc.R_Len[1]
        b == uc.R_Len[2]
        c == uc.R_Len[3]
    IN  /\ result[1] = << FMul(adp[1], FMul(a, a)), FMul(adp[2], FMul(b, b)),
                          FMul(adp[3], FMul(c, c)), FMul(adp[4], FMul(a, b)),
                          FMul(adp[5], FMul(a, c)), FMul(adp[6], FMul(b, c)) >>
        /\ Close(result[1], A_Xaniso_At(DiagonalMatrix(uc.R_Len), adp),
                 ConversionTolerance)
        /\ Close(result[1], Congruence(DiagonalMatrix(uc.R_Len), adp),
                 ConversionTolerance)
        /\ (a = Scale /\ b = Scale /\ c = Scale) => result[1] = adp

\* Uuvrs_as_Ustar has converted a tensor without a zero component in a cell
\* with three different reciprocal edge lengths.
C13_Witness ==
  /\ pc = "done"
  /\ call = "Uuvrs_as_Ustar"
  /\ uc.R_Len[1] # uc.R_Len[2]
  /\ uc.R_Len[1] # uc.R_Len[3]
  /\ uc.R_Len[2] # uc.R_Len[3]
  /\ \A k \in 1..6 : adp[k] # 0 /\ result[1][k] # adp[k]


\* C14: the Debye-Waller factor is 1.0, the argument of the exponential
\* being 0, in the neutral cases: DebyeWallerFactorUiso with Uiso = 0 for
\* every stol2 and for every unit cell and Miller index, and
\* DebyeWallerFactorUstar and DebyeWallerFactor_beta with the Miller index
\* (0, 0, 0) for every tensor.
C14_NeutralFactorIsOne ==
  /\ (pc = "done" /\ call = "DebyeWallerFactorUiso" /\ uiso = 0)
       => result = Scale /\ FMul(-U_as_B(uiso), stol2) = 0
  /\ (pc = "done" /\ call = "DebyeWallerFactorUiso_MIx" /\ uiso = 0)
       => result = Scale /\ FMul(-U_as_B(uiso), RDiv(Q(uc, MIx), 4)) = 0
  /\ (pc = "done" /\ call = "DebyeWallerFactorUstar" /\ MIx = <<0, 0, 0>>)
       => result = Scale /\ ExponentUstar(MIx, adp) = 0
  /\ (pc = "done" /\ call = "DebyeWallerFactor_beta" /\ MIx = <<0, 0, 0>>)
       => result = Scale /\ Exponent_beta(MIx, adp) = 0

\* DebyeWallerFactor_beta has returned 1.0 for the index (0, 0, 0) and a
\* tensor without a zero component.
C14_Witness ==
  /\ pc = "done"
  /\ call = "DebyeWallerFactor_beta"
  /\ MIx = <<0, 0, 0>>
  /\ \A k \in 1..6 : adp[k] # 0
  /\ result = Scale

\* Outside the neutral cases the factors differ from 1.0.
C14_Witness_NotNeutral ==
  /\ pc = "done"
  /\ \/ call = "DebyeWallerFactorUiso" /\ uiso # 0 /\ stol2 # 0
     \/ call = "DebyeWallerFactorUstar" /\ MIx # <<0, 0, 0>>
  /\ result # Scale /\ result > 0


\* The sum of the three values of a triple and the trace of a tensor.
Sum3(x) == x[1] + x[2] + x[3]

\* The three values are numbers.
NoNaN(x) == \A k \in 1..3 : ~IsNaN(x[k])

\* C15: whenever Eigenvalues returns, the sum of the three returned values
\* equals the trace adp[0] + adp[1] + adp[2] (up to the iteration tolerance
\* 1.e-6, which is far above the rounding of the three roots).
C15_EigenvalueSumIsTrace ==
  Returned("Eigenvalues") =>
    /\ NoNaN(result)
    /\ Abs(Sum3(result) - Sum3(adp)) <= DefaultTolerance

\* The same for the returned triples that consist of numbers.
C15_NumbersSumToTrace ==
  (Returned("Eigenvalues") /\ NoNaN(result)) =>
    Abs(Sum3(result) - Sum3(adp)) <= DefaultTolerance


\* x lies in [0, 1), in (-1/2, 1/2].
InPositiveRange(x) == 0 <= x /\ x < One
InShortRange(x) == -Half < x /\ x <= Half

\* x and y differ by an integer; by an integer up to tol.
DifferByInteger(x, y) == (x - y) % One = 0
DifferByIntegerWithin(x, y, tol) ==
  (x - y) % One <= tol \/ One - ((x - y) % One) <= tol

\* Half the spacing of the representable numbers between 1/2 and 1: the
\* most that the rounding of result[i] + 1. can change.
HalfSpacing == One \div (2 ^ (Precision + 1))

\* C16 as stated: the results lie in [0, 1) and in (-1/2, 1/2], and every
\* result element differs from the input element by an integer.
C16_ResultDiffersByInteger ==
  /\ Done("modPositive") =>
       \A k \in 1..3 : /\ InPositiveRange(result[k])
                       /\ DifferByInteger(result[k], elems[k])
  /\ Done("modShort") =>
       \A k \in 1..3 : /\ InShortRange(result[k])
                       /\ DifferByInteger(result[k], elems[k])

\* C16: modPositive returns elements in [0, 1) and modShort returns
\* elements in (-1/2, 1/2]; the elements of modShort, and those of
\* modPositive for an input element that is not negative, differ from the
\* input element by an integer, those of modPositive for a negative input
\* element by an integer up to the rounding of the addition of 1; the
\* receiver is not modified.
C16_ModulusInRange ==
  /\ [](Done("modPositive") =>
          \A k \in 1..3 :
            /\ InPositiveRange(result[k])
            /\ DifferByIntegerWithin(result[k], elems[k], HalfSpacing)
            /\ elems[k] >= 0 => DifferByInteger(result[k], elems[k]))
  /\ [](Done("modShort") =>
          \A k \in 1..3 : /\ InShortRange(result[k])
                          /\ DifferByInteger(result[k], elems[k]))
  /\ [][pc = "have_elems" => elems' = elems]_vars

\* modPositive has returned 0 for a small negative element, whose sum with
\* 1 is rounded to 1, and modShort has left the same element alone.
C16_Witness ==
  /\ Done("modPositive")
  /\ elems[1] < 0
  /\ result[1] = 0
  /\ ~DifferByInteger(result[1], elems[1])
  /\ InShortRange(elems[1])
  /\ modShort(elems)[1] = elems[1]


\* In the current pass of recursively_multiply the normalized product M V
\* is defined and equals -V within the scaled tolerance.
MatchesNegation ==
  /\ pc = "rm_loop"
  /\ LET MV0        == multiply(M[iM + 1], V)
         abs_lambda == FSqrt(dot(MV0, MV0))
     IN  IF abs_lambda = 0
         THEN FALSE
         ELSE LET MV == array_div(MV0, abs_lambda)
                  absMV == array_abs(MV)
                  scaled_tolerance ==
                    FMul(absMV[array_max_index(absMV)], rm_tolerance)
              IN  approx_equal(MV, array_neg(V), scaled_tolerance)

\* The start vector of the first call of recursively_multiply is an
\* eigenvector of a negative eigenvalue: the tensor is diagonal, not
\* singular, and its diagonal element of largest magnitude is negative.
NegativeStart(a) ==
  /\ IsDiagonal(a)
  /\ a[1] # 0 /\ a[2] # 0 /\ a[3] # 0
  /\ a[array_max_index(array_abs(<<a[1], a[2], a[3]>>))] < 0

\* C17: a pass of recursively_multiply in which the normalized product M V
\* equals -V within the scaled tolerance ends the call with
\* not_positive_definite and accepts no iterate (nothing is stored in
\* result), and a call of Eigenvectors whose start vector is an eigenvector
\* of a negative eigenvalue fails in the first pass, before any increment of
\* RunAwayCounter.
C17_NegationThrowsBeforeConvergence ==
  /\ [][MatchesNegation =>
          /\ outcome' = not_positive_definite
          /\ pc' = "done"
          /\ result' = result]_vars
  /\ [](Done("Eigenvectors") /\ NegativeStart(adp) =>
          /\ outcome = not_positive_definite
          /\ iM = 0
          /\ RunAwayCounter = 0
          /\ result = <<>>)

\* Eigenvectors has failed in the first pass on a diagonal tensor whose
\* element of largest magnitude is negative.
C17_Witness ==
  /\ Done("Eigenvectors")
  /\ NegativeStart(adp)
  /\ outcome = not_positive_definite
  /\ RunAwayCounter = 0
  /\ V = UnitVector(array_max_index(array_abs(<<adp[1], adp[2], adp[3]>>)))


ResidualSumCall == "reference_coordinate_residual_sum"

\* sites_cart[i_seq] - ref_sites of the proxy.
DeltaOf(proxy) == Delta(sites_cart[proxy.i_seqs[1] + 1], proxy.ref_sites)

\* weight * |sites_cart[i_seq] - ref_sites|^2 of the proxy.
WeightedSquare(proxy) ==
  LET dd == DeltaOf(proxy)
  IN  FMul(proxy.weight, FMul(dd[1], dd[1]) + FMul(dd[2], dd[2])
                         + FMul(dd[3], dd[3]))

\* The sum of weight * |delta|^2 over the first n proxies.
RECURSIVE SumOfSquares(_)
SumOfSquares(n) ==
  IF n = 0 THEN 0 ELSE WeightedSquare(proxies[n]) + SumOfSquares(n - 1)

\* The component c of the sum of 2 * weight * delta over those of the first
\* n proxies that refer to the entry j of gradient_array.
RECURSIVE SumOfGradients(_, _, _)
SumOfGradients(n, j, c) ==
  IF n = 0
  THEN 0
  ELSE (IF proxies[n].i_seqs[1] = j
        THEN FMul(2 * proxies[n].weight, DeltaOf(proxies[n])[c])
        ELSE 0)
       + SumOfGradients(n - 1, j, c)

\* gradient_array is its initial content plus the contributions of the
\* first n proxies.
GradientsOfFirst(n) ==
  /\ Len(gradient_array) = Len(gradient_initial)
  /\ \A j \in 1..Len(gradient_array) : \A c \in 1..3 :
       gradient_array[j][c] = gradient_initial[j][c] + SumOfGradients(n, j - 1, c)

\* Every proxy passes the assertion i_seqs[0] < sites_cart.size().
AllPassAssertion ==
  \A n \in 1..Len(proxies) : AssertionHolds(proxies[n], sites_cart)

\* gradient_array has an entry for every site.
GradientsCoverSites == Len(gradient_array) >= Len(sites_cart)

\* C18: when every proxy passes the assertion, the call returns the sum of
\* weight * |sites_cart[i_seq] - ref_sites|^2 over the proxies, and
\* gradient_array is its initial content plus 2 * weight * (sites_cart[i_seq]
\* - ref_sites) for every proxy at the entry i_seq of the proxy.
C18_ResidualAndGradients ==
  (call = ResidualSumCall /\ pc = "done" /\ AllPassAssertion) =>
    /\ outcome = "ok"
    /\ result = SumOfSquares(Len(proxies))
    /\ GradientsOfFirst(Len(proxies))

\* The same for the calls in which gradient_array has an entry for every
\* site, together with the arguments that are only read.
C18_HoldsWhenGradientsCoverSites ==
  /\ [](call = ResidualSumCall /\ pc = "done" /\ AllPassAssertion
          /\ GradientsCoverSites =>
            /\ outcome = "ok"
            /\ result = SumOfSquares(Len(proxies))
            /\ GradientsOfFirst(Len(proxies)))
  /\ [][pc = "rc_loop" =>
          sites_cart' = sites_cart /\ proxies' = proxies]_vars

\* Two proxies with the same i_seqs[0] and different weights have been
\* applied, and an entry of gradient_array no proxy refers to was left alone.
C18_SharedEntryReached ==
  /\ Returned(ResidualSumCall)
  /\ GradientsCoverSites
  /\ Len(proxies) >= 2
  /\ proxies[1].i_seqs = proxies[2].i_seqs
  /\ proxies[1].weight # proxies[2].weight
  /\ gradient_array[proxies[1].i_seqs[1] + 1]
       # gradient_initial[proxies[1].i_seqs[1] + 1]
  /\ \E j \in 1..Len(gradient_array) :
       /\ \A n \in 1..Len(proxies) : proxies[n].i_seqs[1] # j - 1
       /\ gradient_array[j] = gradient_initial[j]
  /\ result > 0

\* C19: every write gradient_array[i_seqs[0]] of the call is within the
\* bounds of gradient_array.
C19_WritesWithinBounds ==
  call = ResidualSumCall =>
    \A n \in 1..Len(written) : InBounds(written[n], gradient_array)

\* The same for the calls in which gradient_array has an entry for every
\* site.
C19_HoldsWhenGradientsCoverSites ==
  (call = ResidualSumCall /\ GradientsCoverSites) =>
    \A n \in 1..Len(written) : InBounds(written[n], gradient_array)

\* C20: when the assertion fails at the proxy k, the call ends without a
\* residual and gradient_array is its initial content plus the
\* contributions of the proxies 0 .. k-1.
C20_FailureKeepsEarlierUpdates ==
  (call = ResidualSumCall /\ pc = "done" /\ ~AllPassAssertion) =>
    /\ outcome = mmtbx_assert_failure
    /\ result = <<>>
    /\ ~AssertionHolds(proxies[i_proxy + 1], sites_cart)
    /\ \A n \in 1..i_proxy : AssertionHolds(proxies[n], sites_cart)
    /\ GradientsOfFirst(i_proxy)

\* The same for the calls in which gradient_array has an entry for every
\* site.
C20_HoldsWhenGradientsCoverSites ==
  (call = ResidualSumCall /\ pc = "done" /\ ~AllPassAssertion
     /\ GradientsCoverSites) =>
    /\ outcome = mmtbx_assert_failure
    /\ result = <<>>
    /\ ~AssertionHolds(proxies[i_proxy + 1], sites_cart)
    /\ \A n \in 1..i_proxy : AssertionHolds(proxies[n], sites_cart)
    /\ GradientsOfFirst(i_proxy)

\* The assertion has failed at the second of three proxies, after an update
\* of gradient_array.
C20_FailureAfterUpdateReached ==
  /\ Done(ResidualSumCall)
  /\ outcome = mmtbx_assert_failure
  /\ GradientsCoverSites
  /\ Len(proxies) = 3
  /\ i_proxy = 1
  /\ gradient_array # gradient_initial
  /\ AssertionHolds(proxies[3], sites_cart)

(***************************************************************************)
(* C21: the six-component encoding under the congruence transform          *)
(***************************************************************************)

\* Every element of the matrix is the element mirrored at the diagonal.
IsSymmetric(m) == m = transpose(m)

\* The same, up to tol for each pair of mirrored elements.
SymmetricWithin(m, tol) == Close(m, transpose(m), tol)

\* The six elements that SymMx33_as_Xaniso reads: 0, 4, 8, 1, 2, 5, counted
\* from one.
KeptEntries(m) == <<m[1], m[5], m[9], m[2], m[3], m[6]>>

\* The three elements it does not read: 3, 6, 7, each at the place of the
\* kept element it mirrors in the six components.
DiscardedEntries(m) == <<m[1], m[5], m[9], m[4], m[7], m[8]>>

EncodingDone == Done("Xaniso_as_SymMx33")
ProductDone == Done("A_Xaniso_At")

\* The part of C21 on the encoding alone: the dense matrix is symmetric
\* and packing it gives back the six components.
EncodingRoundTrip ==
  EncodingDone =>
    /\ Len(result[1]) = 9
    /\ IsSymmetric(result[1])
    /\ result[2] = adp

\* C21 as stated: the dense matrix of a tensor is symmetric, packing it
\* returns the tensor, and the product A X At is symmetric, so that every
\* element A_Xaniso_At discards equals the element it keeps.
C21_ProductIsSymmetric ==
  /\ EncodingRoundTrip
  /\ ProductDone =>
       /\ result = KeptEntries(AXAt)
       /\ IsSymmetric(AXAt)
       /\ DiscardedEntries(AXAt) = result

\* C21, amended: the dense matrix of a tensor is symmetric and packing it
\* returns the tensor exactly; A_Xaniso_At returns elements 0, 4, 8, 1, 2, 5
\* of the product A X At, and every element it discards is within the
\* rounding of the two matrix products of the element it keeps.
C21_ProductIsSymmetricWithinRounding ==
  /\ EncodingRoundTrip
  /\ ProductDone =>
       /\ result = KeptEntries(AXAt)
       /\ SymmetricWithin(AXAt, ConversionTolerance)
       /\ Close(DiscardedEntries(AXAt), result, ConversionTolerance)

\* A_Xaniso_At has ended for a dense matrix, and the product it packed has
\* a discarded element that differs from the kept one, within rounding.
C21_Witness ==
  /\ ProductDone
  /\ Mx33 \in DenseMatrices
  /\ ~IsSymmetric(AXAt)
  /\ DiscardedEntries(AXAt) # result
  /\ SymmetricWithin(AXAt, ConversionTolerance)

\* The encoding has been expanded and packed for a tensor with three
\* different off-diagonal elements.
C21_Witness_Encoding ==
  /\ EncodingDone
  /\ adp[4] # adp[5] /\ adp[5] # adp[6] /\ adp[4] # adp[6]
  /\ result[2] = adp

=============================================================================
